---- MODULE Spec2Model ----
(***************************************************************************)
(* A model of the inline part of the request-scoped memory manager,        *)
(* hphp/runtime/base/memory-manager-inl.h: the size-class engine, the       *)
(* intrusive per-class free lists, the small-object malloc/free paths, the  *)
(* small/large dispatch, the usage accounting, the stats interval, the OOM   *)
(* budget checks, the SuppressOOM and MaskAlloc guards and the lifecycle    *)
(* queries.                                                                *)
(***************************************************************************)
EXTENDS Integers, Sequences, FiniteSets, TLC

(***************************************************************************)
(* Bounds of the model (not program constants).                            *)
(***************************************************************************)
\* number of distinct addresses the free-list driver may push
NumTestAddrs == 4
\* longest sequence of pushes the free-list driver performs
MaxPush == 3
\* most blocks the backing heap hands out in one run
MaxBlocks == 3
\* deepest nesting of SuppressOOM scopes
MaxScopes == 2
\* most startStatsInterval calls without a stop in between
MaxStarts == 2
\* most native allocations, and most native deallocations, in one run
MaxNative == 2
\* most blocks, open SuppressOOM scopes and interval starts at a time in the
\* runs of the lifecycle
MaxLive == 2
\* the sizes from 2 up to this one are all classified, beside the sizes
\* around every class size
MaxDenseSize == 4200

(***************************************************************************)
(* Program constants.  They are declared in memory-manager.h, which is not  *)
(* part of the sources at hand; the values are the ones the code comment of *)
(* computeSize2Index and the static_asserts describe.                       *)
(***************************************************************************)
nullptr == 0
\* the address of the thread's MemoryManager instance
theHeap == 1
kLgSmallSizeQuantum == 4
kLgSizeClassesPerDoubling == 2
kSmallSizeAlign == 16
kSmallSizeAlignMask == 15
kMaxSmallSizeLookup == 4096
kNumSmallSizes == 63
\* the classes up to the class of 2^30 bytes, the largest whose arithmetic
\* stays within the integers at hand
kNumSizeClasses == 100
\* first address the backing heap hands out (aligned to kSmallSizeAlign)
kHeapBase == 4096

RECURSIVE Pow2(_)
Pow2(n) == IF n = 0 THEN 1 ELSE 2 * Pow2(n - 1)

\* x << n and x >> n on non-negative integers
Shl(x, n) == x * Pow2(n)
Shr(x, n) == x \div Pow2(n)

Max(a, b) == IF a >= b THEN a ELSE b

\* hphp/util/bitops.h fls64: 0-based position of the most significant set bit
RECURSIVE fls64(_)
fls64(x) == IF x <= 1 THEN 0 ELSE 1 + fls64(x \div 2)

(***************************************************************************)
(* Size-class engine.                                                      *)
(***************************************************************************)
\* kSizeIndex2Size[index]: the class sizes as the comment of
\* computeSize2Index defines them (denormal, then exponent/mantissa)
kSizeIndex2Size(index) ==
  IF index < Pow2(kLgSizeClassesPerDoubling)
  THEN Shl(index + 1, kLgSmallSizeQuantum)
  ELSE LET exp == (index \div Pow2(kLgSizeClassesPerDoubling)) - 1
           mantissa == (index % Pow2(kLgSizeClassesPerDoubling)) + 1
       IN Shl(Pow2(kLgSizeClassesPerDoubling) + mantissa,
              exp + kLgSmallSizeQuantum)

sizeIndex2Size(index) == kSizeIndex2Size(index)

kMaxSizeClass == kSizeIndex2Size(kNumSizeClasses - 1)

kMaxSmallSize == kSizeIndex2Size(kNumSmallSizes - 1)

\* kSmallSize2Index[k]: the precomputed table, the class of the sizes
\* (k << quantum, (k+1) << quantum]
kSmallSize2Index(k) ==
  CHOOSE i \in 0..(kNumSmallSizes - 1) :
    /\ kSizeIndex2Size(i) >= Shl(k + 1, kLgSmallSizeQuantum)
    /\ \A j \in 0..(i - 1) : kSizeIndex2Size(j) < Shl(k + 1, kLgSmallSizeQuantum)

\* a plausible slip: the size is not decremented before its class is sought
computeSize2Index_nodec(size0) ==
  LET size == size0
      nBits == fls64(size)
  IN IF nBits < kLgSizeClassesPerDoubling + kLgSmallSizeQuantum
     THEN Shr(size, kLgSmallSizeQuantum)
     ELSE LET exp == nBits - (kLgSizeClassesPerDoubling + kLgSmallSizeQuantum)
              rawMantissa == Shr(size, nBits - kLgSizeClassesPerDoubling)
          IN Shl(exp, kLgSizeClassesPerDoubling) + rawMantissa

computeSize2Index(size0) ==
  LET size == size0 - 1
      nBits == fls64(size)
  IN IF nBits < kLgSizeClassesPerDoubling + kLgSmallSizeQuantum
     THEN Shr(size, kLgSmallSizeQuantum)
     ELSE LET exp == nBits - (kLgSizeClassesPerDoubling + kLgSmallSizeQuantum)
              rawMantissa == Shr(size, nBits - kLgSizeClassesPerDoubling)
          IN Shl(exp, kLgSizeClassesPerDoubling) + rawMantissa

lookupSmallSize2Index(size) ==
  kSmallSize2Index(Shr(size - 1, kLgSmallSizeQuantum))

size2Index(size) ==
  IF size <= kMaxSmallSizeLookup
  THEN lookupSmallSize2Index(size)
  ELSE computeSize2Index(size)

\* a plausible slip: the rounding quantum is taken one bit too coarse
sizeClass_coarse(size0) ==
  LET size == size0 - 1
      nInsignificantBits == fls64(size) - kLgSizeClassesPerDoubling + 1
      roundTo == IF nInsignificantBits < kLgSmallSizeQuantum
                 THEN kLgSmallSizeQuantum
                 ELSE nInsignificantBits
  IN Shl(Shr(size, roundTo) + 1, roundTo)

sizeClass(size0) ==
  LET size == size0 - 1
      nInsignificantBits == fls64(size) - kLgSizeClassesPerDoubling
      roundTo == IF nInsignificantBits < kLgSmallSizeQuantum
                 THEN kLgSmallSizeQuantum
                 ELSE nInsignificantBits
  IN Shl(Shr(size, roundTo) + 1, roundTo)

(***************************************************************************)
(* Intrusive free lists.  A FreeList is its head pointer; the link of a     *)
(* node lives in the block itself, so the memory of the blocks (mem: the    *)
(* next field stored at each address that was written) is threaded through. *)
(***************************************************************************)
\* node->next = next; return node
FreeNode_UninitFrom(m, addr, next) ==
  [a \in (DOMAIN m) \cup {addr} |-> IF a = addr THEN next ELSE m[a]]

\* a plausible slip: the new node is linked behind the last node (FIFO)
RECURSIVE LastNode(_, _)
LastNode(m, n) == IF m[n] = nullptr THEN n ELSE LastNode(m, m[n])

push_fifo(head, m, val) ==
  IF head = nullptr
  THEN [head |-> val, mem |-> FreeNode_UninitFrom(m, val, nullptr)]
  ELSE [head |-> head,
        mem |-> FreeNode_UninitFrom(
                  FreeNode_UninitFrom(m, val, nullptr), LastNode(m, head), val)]

\* head = FreeNode::UninitFrom(val, head)
push(head, m, val) ==
  [head |-> val, mem |-> FreeNode_UninitFrom(m, val, head)]

\* a plausible slip: the head is returned but the list is not advanced
likelyPop_peek(head, m) ==
  LET ret == head
  IN [ret |-> ret, head |-> head]

likelyPop(head, m) ==
  LET ret == head
  IN [ret |-> ret, head |-> IF ret # nullptr THEN m[ret] ELSE head]

unlikelyPop(head, m) ==
  LET ret == head
  IN [ret |-> ret, head |-> IF ret # nullptr THEN m[ret] ELSE head]

(***************************************************************************)
(* Usage statistics (MemoryUsageStats).  The struct and refreshStatsImpl    *)
(* are declared outside the sources at hand: usage() is the running counter *)
(* of the manager plus the adjustment reconciled from the native            *)
(* allocator's counters, capacity() is the memory the heap owns.            *)
(***************************************************************************)
usage(stats) == stats.mmUsage + stats.auxUsage

capacity(stats) == stats.cap

\* reconcile stats with the thread's native allocated/deallocated counters,
\* when they are available; otherwise leave stats as they are
refreshStatsImpl(stats, statsEnabled, allocated, deallocated) ==
  IF statsEnabled
  THEN [stats EXCEPT !.auxUsage = allocated - deallocated]
  ELSE stats

(***************************************************************************)
(* State.                                                                  *)
(***************************************************************************)
VARIABLES
  \* the memory manager
  m_freelists,            \* head of the free list of each small size class
  mem,                    \* the next link stored in each block ever linked
  m_front,                \* next fresh address of the backing heap
  m_blocks,               \* every address the backing heap handed out
  m_bigs,                 \* outstanding big blocks: address -> bytes
  m_stats,                \* MemoryUsageStats
  m_bypassSlabAlloc,      \* diagnostic mode: no slab recycling
  currentSmallAllocs,     \* per class, small blocks outstanding in that mode
  m_couldOOM,             \* OOM checks enabled
  m_usageLimit,           \* the budget
  m_statsIntervalActive,
  \* the native allocator's per-thread counters
  s_statsEnabled,
  m_allocated,
  m_deallocated,
  \* the callers
  ret,                    \* what the last operation returned and signalled
  call,                   \* the last call: operation, arguments, state before
  held,                   \* blocks the callers hold: [ptr, index]
  scopes,                 \* the open SuppressOOM guards, innermost first
  nStarts,                \* startStatsInterval calls since the last stop
  scn,                    \* progress of the alloc/free/alloc reuse scenario
  \* a stand-alone free list and its driver
  fl,                     \* a FreeList (its head)
  pushed,                 \* the addresses pushed on fl, in call order
  popped,                 \* the results of the pops of fl, in call order
  \* the thread's lifecycle state
  tl_heap,                \* the thread's active manager, or nullptr
  tl_sweeping,            \* a sweep is walking the heap
  m_exiting,              \* the request is tearing down
  \* allocation masking
  m_resetAllocated,       \* native bytes allocated inside MaskAlloc scopes
  m_resetDeallocated,     \* native bytes freed inside MaskAlloc scopes
  masks                   \* the live MaskAlloc guards, innermost first

mmVars == <<m_freelists, mem, m_front, m_blocks, m_bigs, m_stats,
            m_bypassSlabAlloc, currentSmallAllocs, m_couldOOM, m_usageLimit,
            m_statsIntervalActive>>
nativeVars == <<s_statsEnabled, m_allocated, m_deallocated>>
callerVars == <<ret, call, held, scopes, nStarts, scn>>
flVars == <<fl, pushed, popped>>
exitVars == <<tl_heap, tl_sweeping, m_exiting>>
maskVars == <<m_resetAllocated, m_resetDeallocated, masks>>
vars == <<mmVars, nativeVars, callerVars, flVars, exitVars, maskVars>>

SmallClasses == 0..(kNumSmallSizes - 1)

\* inputs the callers draw from
TestAddrs == {kSmallSizeAlign * k : k \in 1..NumTestAddrs}
AllocIndexes == {1, 28}
AllocSizes == {24, 5000}
BudgetIndexes == {1, 17}
OOMSizes == {50, 150}
\* with the limit 182 a request of 150 bytes at usage 32 lands on the limit
UsageLimits == {182, 1000}
NativeBytes == {100}

NoRet == [ptr |-> nullptr, flag |-> FALSE, exceeded |-> 0, slow |-> FALSE,
          size |-> 0, index |-> 0]

NoCall == [op |-> "none", arg |-> 0, index |-> 0, ptr |-> nullptr,
           couldOOM |-> FALSE, cur |-> 0, snap |-> 0, active |-> FALSE,
           starts |-> 0, peakUsage |-> 0, peakCap |-> 0, prevSlow |-> FALSE,
           paired |-> FALSE, before |-> 0, entered |-> FALSE]

NoScn == [phase |-> "idle", bytes |-> 0, n |-> 0, count |-> 0, first |-> {},
          second |-> {}, slow |-> FALSE, usage |-> 0]

Init ==
  /\ m_freelists = [i \in SmallClasses |-> nullptr]
  /\ mem = <<>>
  /\ m_front = kHeapBase
  /\ m_blocks = {}
  /\ m_bigs = <<>>
  /\ m_stats = [mmUsage |-> 0, auxUsage |-> 0, cap |-> 0,
                peakIntervalUsage |-> 0, peakIntervalCap |-> 0]
  /\ m_bypassSlabAlloc \in BOOLEAN
  /\ currentSmallAllocs = [i \in SmallClasses |-> 0]
  /\ m_couldOOM \in BOOLEAN
  /\ m_usageLimit \in UsageLimits
  /\ m_statsIntervalActive = FALSE
  /\ s_statsEnabled \in BOOLEAN
  /\ m_allocated = 0
  /\ m_deallocated = 0
  /\ ret = NoRet
  /\ call = NoCall
  /\ held = {}
  /\ scopes = <<>>
  /\ nStarts = 0
  /\ scn = NoScn
  /\ fl = nullptr
  /\ pushed = <<>>
  /\ popped = <<>>
  /\ tl_heap = theHeap
  /\ tl_sweeping = FALSE
  /\ m_exiting = FALSE
  /\ m_resetAllocated = 0
  /\ m_resetDeallocated = 0
  /\ masks = <<>>

Range(s) == {s[k] : k \in 1..Len(s)}

(***************************************************************************)
(* Large-object path and slow path.  Their code (memory-manager.cpp) is not *)
(* part of the sources at hand; they are modelled from the design: a big    *)
(* block is tracked individually and charged with its size, the slow path   *)
(* carves a fresh block of the class size out of the backing heap, and in   *)
(* the bypass mode a small block is a big block.                            *)
(***************************************************************************)
\* the native allocator hands out blocks aligned like the small ones
AlignUp(bytes) ==
  ((bytes + kSmallSizeAlignMask) \div kSmallSizeAlign) * kSmallSizeAlign

\* [ptr, front, stats, bigs]: a fresh big block of `bytes` bytes
mallocBigSize(stats, bytes) ==
  [ptr |-> m_front,
   front |-> m_front + AlignUp(bytes),
   stats |-> [stats EXCEPT !.mmUsage = @ + bytes, !.cap = @ + bytes],
   bigs |-> [a \in (DOMAIN m_bigs) \cup {m_front} |->
               IF a = m_front THEN bytes ELSE m_bigs[a]],
   csa |-> currentSmallAllocs]

freeBigSize(ptr) ==
  /\ m_stats' = [m_stats EXCEPT !.mmUsage = @ - m_bigs[ptr],
                                !.cap = @ - m_bigs[ptr]]
  /\ m_bigs' = [a \in (DOMAIN m_bigs) \ {ptr} |-> m_bigs[a]]

\* [ptr, front, stats, bigs, csa]: the block the slow path returns
mallocSmallSizeSlow(stats, bytes, index) ==
  IF m_bypassSlabAlloc
  THEN [mallocBigSize([stats EXCEPT !.mmUsage = @ - bytes], bytes)
          EXCEPT !.csa = [currentSmallAllocs EXCEPT ![index] = @ + 1]]
  ELSE [ptr |-> m_front,
        front |-> m_front + bytes,
        stats |-> [stats EXCEPT !.cap = @ + bytes],
        bigs |-> m_bigs,
        csa |-> currentSmallAllocs]

(***************************************************************************)
(* Small-object path.                                                      *)
(***************************************************************************)
\* a plausible slip: the free list is never probed
mallocSmallIndex_nopop(index) ==
  /\ index < kNumSmallSizes
  /\ Cardinality(m_blocks) < MaxBlocks
  /\ LET bytes == sizeIndex2Size(index)
         stats1 == [m_stats EXCEPT !.mmUsage = @ + bytes]
         slow == mallocSmallSizeSlow(stats1, bytes, index)
     IN /\ m_stats' = slow.stats
        /\ m_front' = slow.front
        /\ m_blocks' = m_blocks \cup {slow.ptr}
        /\ m_bigs' = slow.bigs
        /\ currentSmallAllocs' = slow.csa
        /\ ret' = [NoRet EXCEPT !.ptr = slow.ptr, !.slow = TRUE]
  /\ UNCHANGED <<m_freelists, mem, m_bypassSlabAlloc, m_couldOOM,
                 m_usageLimit, m_statsIntervalActive, nativeVars,
                 exitVars, maskVars, scopes>>

mallocSmallIndex(index) ==
  /\ index < kNumSmallSizes
  /\ LET bytes == sizeIndex2Size(index)
         stats1 == [m_stats EXCEPT !.mmUsage = @ + bytes]
         pop == likelyPop(m_freelists[index], mem)
     IN /\ m_freelists' = [m_freelists EXCEPT ![index] = pop.head]
        /\ IF pop.ret # nullptr
           THEN /\ m_stats' = stats1
                /\ ret' = [NoRet EXCEPT !.ptr = pop.ret]
                /\ UNCHANGED <<m_front, m_blocks, m_bigs, currentSmallAllocs>>
           ELSE /\ Cardinality(m_blocks) < MaxBlocks
                /\ LET slow == mallocSmallSizeSlow(stats1, bytes, index)
                   IN /\ m_stats' = slow.stats
                      /\ m_front' = slow.front
                      /\ m_blocks' = m_blocks \cup {slow.ptr}
                      /\ m_bigs' = slow.bigs
                      /\ currentSmallAllocs' = slow.csa
                      /\ ret' = [NoRet EXCEPT !.ptr = slow.ptr, !.slow = TRUE]
  /\ UNCHANGED <<mem, m_bypassSlabAlloc, m_couldOOM, m_usageLimit,
                 m_statsIntervalActive, nativeVars, exitVars, maskVars, scopes>>

mallocSmallSize(bytes) ==
  /\ bytes > 0
  /\ bytes <= kMaxSmallSize
  /\ mallocSmallIndex(size2Index(bytes))

\* a plausible slip: the block is recycled but the usage is not given back
freeSmallIndex_nostats(ptr, index) ==
  /\ index < kNumSmallSizes
  /\ ptr % (kSmallSizeAlignMask + 1) = 0
  /\ IF m_bypassSlabAlloc
     THEN /\ currentSmallAllocs' = [currentSmallAllocs EXCEPT ![index] = @ - 1]
          /\ freeBigSize(ptr)
          /\ UNCHANGED <<m_freelists, mem>>
     ELSE LET r == push(m_freelists[index], mem, ptr)
          IN /\ m_freelists' = [m_freelists EXCEPT ![index] = r.head]
             /\ mem' = r.mem
             /\ UNCHANGED <<m_stats, m_bigs, currentSmallAllocs>>
  /\ ret' = NoRet
  /\ UNCHANGED <<m_front, m_blocks, m_bypassSlabAlloc, m_couldOOM,
                 m_usageLimit, m_statsIntervalActive, nativeVars,
                 exitVars, maskVars, scopes>>

freeSmallIndex(ptr, index) ==
  /\ index < kNumSmallSizes
  /\ ptr % (kSmallSizeAlignMask + 1) = 0
  /\ IF m_bypassSlabAlloc
     THEN /\ currentSmallAllocs' = [currentSmallAllocs EXCEPT ![index] = @ - 1]
          /\ freeBigSize(ptr)
          /\ UNCHANGED <<m_freelists, mem>>
     ELSE LET bytes == sizeIndex2Size(index)
              r == push(m_freelists[index], mem, ptr)
          IN /\ m_freelists' = [m_freelists EXCEPT ![index] = r.head]
             /\ mem' = r.mem
             /\ m_stats' = [m_stats EXCEPT !.mmUsage = @ - bytes]
             /\ UNCHANGED <<m_bigs, currentSmallAllocs>>
  /\ ret' = NoRet
  /\ UNCHANGED <<m_front, m_blocks, m_bypassSlabAlloc, m_couldOOM,
                 m_usageLimit, m_statsIntervalActive, nativeVars,
                 exitVars, maskVars, scopes>>

freeSmallSize(ptr, bytes) == freeSmallIndex(ptr, size2Index(bytes))

(***************************************************************************)
(* Small/large dispatch.                                                   *)
(***************************************************************************)
\* return mallocBigSize<Unzeroed>(bytes)
ReturnMallocBigSize(bytes) ==
  /\ LET big == mallocBigSize(m_stats, bytes)
     IN /\ m_stats' = big.stats
        /\ m_front' = big.front
        /\ m_bigs' = big.bigs
        /\ ret' = [NoRet EXCEPT !.ptr = big.ptr]
  /\ UNCHANGED <<m_freelists, mem, m_blocks, m_bypassSlabAlloc,
                 currentSmallAllocs, m_couldOOM, m_usageLimit,
                 m_statsIntervalActive, nativeVars, exitVars, maskVars,
                 scopes>>

\* freeBigSize(ptr); return
ReturnFreeBigSize(ptr) ==
  /\ freeBigSize(ptr)
  /\ ret' = NoRet
  /\ UNCHANGED <<m_freelists, mem, m_front, m_blocks, m_bypassSlabAlloc,
                 currentSmallAllocs, m_couldOOM, m_usageLimit,
                 m_statsIntervalActive, nativeVars, exitVars, maskVars,
                 scopes>>

\* a plausible slip: the largest small size is sent to the large path
objMalloc_strict(size) ==
  IF size < kMaxSmallSize
  THEN mallocSmallSize(size)
  ELSE ReturnMallocBigSize(size)

objMalloc(size) ==
  IF size <= kMaxSmallSize
  THEN mallocSmallSize(size)
  ELSE ReturnMallocBigSize(size)

objFree(vp, size) ==
  IF size <= kMaxSmallSize
  THEN freeSmallSize(vp, size)
  ELSE ReturnFreeBigSize(vp)

objMallocIndex(index) ==
  IF index < kNumSmallSizes
  THEN mallocSmallIndex(index)
  ELSE ReturnMallocBigSize(sizeIndex2Size(index))

objFreeIndex(ptr, index) ==
  IF index < kNumSmallSizes
  THEN freeSmallIndex(ptr, index)
  ELSE ReturnFreeBigSize(ptr)

(***************************************************************************)
(* Stats, interval and budget.                                             *)
(***************************************************************************)
currentUsage == m_stats.mmUsage

\* reconcile the manager's own stats with the native counters
refreshStats ==
  m_stats' = refreshStatsImpl(m_stats, s_statsEnabled, m_allocated,
                              m_deallocated)

getStatsCopy ==
  LET copy == m_stats
  IN refreshStatsImpl(copy, s_statsEnabled, m_allocated, m_deallocated)

\* a plausible slip: the result is the flag itself, not its negation
startStatsInterval_was ==
  /\ LET r == m_statsIntervalActive
         stats == getStatsCopy
     IN /\ m_stats' = [m_stats EXCEPT
                         !.peakIntervalUsage = Max(0, usage(stats)),
                         !.peakIntervalCap = capacity(m_stats)]
        /\ m_statsIntervalActive' = TRUE
        /\ ret' = [NoRet EXCEPT !.flag = r]
  /\ UNCHANGED <<m_freelists, mem, m_front, m_blocks, m_bigs,
                 m_bypassSlabAlloc, currentSmallAllocs, m_couldOOM,
                 m_usageLimit, nativeVars, exitVars, maskVars, scopes>>

\* a plausible slip: the result is computed after the flag has been set
startStatsInterval_late ==
  /\ LET stats == getStatsCopy
         active == TRUE
         r == ~active
     IN /\ m_stats' = [m_stats EXCEPT
                         !.peakIntervalUsage = Max(0, usage(stats)),
                         !.peakIntervalCap = capacity(m_stats)]
        /\ m_statsIntervalActive' = active
        /\ ret' = [NoRet EXCEPT !.flag = r]
  /\ UNCHANGED <<m_freelists, mem, m_front, m_blocks, m_bigs,
                 m_bypassSlabAlloc, currentSmallAllocs, m_couldOOM,
                 m_usageLimit, nativeVars, exitVars, maskVars, scopes>>

\* a plausible slip: the usage of the snapshot is stored without the clamp
startStatsInterval_noclamp ==
  /\ LET r == ~m_statsIntervalActive
         stats == getStatsCopy
     IN /\ m_stats' = [m_stats EXCEPT
                         !.peakIntervalUsage = usage(stats),
                         !.peakIntervalCap = capacity(m_stats)]
        /\ m_statsIntervalActive' = TRUE
        /\ ret' = [NoRet EXCEPT !.flag = r]
  /\ UNCHANGED <<m_freelists, mem, m_front, m_blocks, m_bigs,
                 m_bypassSlabAlloc, currentSmallAllocs, m_couldOOM,
                 m_usageLimit, nativeVars, exitVars, maskVars, scopes>>

startStatsInterval ==
  /\ LET r == ~m_statsIntervalActive
         stats == getStatsCopy
     IN /\ m_stats' = [m_stats EXCEPT
                         !.peakIntervalUsage = Max(0, usage(stats)),
                         !.peakIntervalCap = capacity(m_stats)]
        /\ m_statsIntervalActive' = TRUE
        /\ ret' = [NoRet EXCEPT !.flag = r]
  /\ UNCHANGED <<m_freelists, mem, m_front, m_blocks, m_bigs,
                 m_bypassSlabAlloc, currentSmallAllocs, m_couldOOM,
                 m_usageLimit, nativeVars, exitVars, maskVars, scopes>>

\* a plausible slip: the peak capacity of the interval is not reset
stopStatsInterval_keepcap ==
  /\ LET r == m_statsIntervalActive
     IN ret' = [NoRet EXCEPT !.flag = r]
  /\ m_statsIntervalActive' = FALSE
  /\ m_stats' = [m_stats EXCEPT !.peakIntervalUsage = 0]
  /\ UNCHANGED <<m_freelists, mem, m_front, m_blocks, m_bigs,
                 m_bypassSlabAlloc, currentSmallAllocs, m_couldOOM,
                 m_usageLimit, nativeVars, exitVars, maskVars, scopes>>

stopStatsInterval ==
  /\ LET r == m_statsIntervalActive
     IN ret' = [NoRet EXCEPT !.flag = r]
  /\ m_statsIntervalActive' = FALSE
  /\ m_stats' = [m_stats EXCEPT !.peakIntervalUsage = 0,
                                !.peakIntervalCap = 0]
  /\ UNCHANGED <<m_freelists, mem, m_front, m_blocks, m_bigs,
                 m_bypassSlabAlloc, currentSmallAllocs, m_couldOOM,
                 m_usageLimit, nativeVars, exitVars, maskVars, scopes>>

\* The exceeded handler lives outside the sources at hand.  It signals the
\* breach once (counted in the record r the caller returns); whether it also
\* switches the checks off for the rest of the request is left open.
refreshStatsHelperExceeded(r) ==
  /\ ret' = [r EXCEPT !.exceeded = @ + 1]
  /\ m_couldOOM' \in {m_couldOOM, FALSE}

\* a plausible slip: the check reads the running counter, not the snapshot
preAllocOOM_current(size) ==
  /\ IF m_couldOOM
     THEN IF currentUsage + size > m_usageLimit
          THEN refreshStatsHelperExceeded([NoRet EXCEPT !.flag = TRUE])
          ELSE /\ ret' = [NoRet EXCEPT !.flag = FALSE]
               /\ UNCHANGED m_couldOOM
     ELSE /\ ret' = [NoRet EXCEPT !.flag = FALSE]
          /\ UNCHANGED m_couldOOM
  /\ UNCHANGED <<m_freelists, mem, m_front, m_blocks, m_bigs, m_stats,
                 m_bypassSlabAlloc, currentSmallAllocs, m_usageLimit,
                 m_statsIntervalActive, nativeVars, exitVars, maskVars, scopes>>

\* a plausible slip: the breach is reported but the handler is not invoked
preAllocOOM_nosignal(size) ==
  /\ IF m_couldOOM
     THEN LET stats == getStatsCopy
          IN ret' = [NoRet EXCEPT !.flag = usage(stats) + size > m_usageLimit]
     ELSE ret' = [NoRet EXCEPT !.flag = FALSE]
  /\ UNCHANGED <<m_freelists, mem, m_front, m_blocks, m_bigs, m_stats,
                 m_bypassSlabAlloc, currentSmallAllocs, m_couldOOM,
                 m_usageLimit, m_statsIntervalActive, nativeVars,
                 exitVars, maskVars, scopes>>

\* a plausible slip: the check reconciles the stored stats (getStats) instead
\* of a copy of them
preAllocOOM_refresh(size) ==
  /\ refreshStats
  /\ IF m_couldOOM
     THEN LET stats == getStatsCopy
          IN IF usage(stats) + size > m_usageLimit
             THEN refreshStatsHelperExceeded([NoRet EXCEPT !.flag = TRUE])
             ELSE /\ ret' = [NoRet EXCEPT !.flag = FALSE]
                  /\ UNCHANGED m_couldOOM
     ELSE /\ ret' = [NoRet EXCEPT !.flag = FALSE]
          /\ UNCHANGED m_couldOOM
  /\ UNCHANGED <<m_freelists, mem, m_front, m_blocks, m_bigs,
                 m_bypassSlabAlloc, currentSmallAllocs, m_usageLimit,
                 m_statsIntervalActive, nativeVars, exitVars, maskVars,
                 scopes>>

preAllocOOM(size) ==
  /\ IF m_couldOOM
     THEN LET stats == getStatsCopy
          IN IF usage(stats) + size > m_usageLimit
             THEN refreshStatsHelperExceeded([NoRet EXCEPT !.flag = TRUE])
             ELSE /\ ret' = [NoRet EXCEPT !.flag = FALSE]
                  /\ UNCHANGED m_couldOOM
     ELSE /\ ret' = [NoRet EXCEPT !.flag = FALSE]
          /\ UNCHANGED m_couldOOM
  /\ UNCHANGED <<m_freelists, mem, m_front, m_blocks, m_bigs, m_stats,
                 m_bypassSlabAlloc, currentSmallAllocs, m_usageLimit,
                 m_statsIntervalActive, nativeVars, exitVars, maskVars, scopes>>

\* a plausible slip: the handler is invoked only when the limit is exceeded
forceOOM_checked ==
  /\ IF m_couldOOM /\ usage(getStatsCopy) > m_usageLimit
     THEN refreshStatsHelperExceeded(NoRet)
     ELSE /\ ret' = NoRet
          /\ UNCHANGED m_couldOOM
  /\ UNCHANGED <<m_freelists, mem, m_front, m_blocks, m_bigs, m_stats,
                 m_bypassSlabAlloc, currentSmallAllocs, m_usageLimit,
                 m_statsIntervalActive, nativeVars, exitVars, maskVars, scopes>>

forceOOM ==
  /\ IF m_couldOOM
     THEN refreshStatsHelperExceeded(NoRet)
     ELSE /\ ret' = NoRet
          /\ UNCHANGED m_couldOOM
  /\ UNCHANGED <<m_freelists, mem, m_front, m_blocks, m_bigs, m_stats,
                 m_bypassSlabAlloc, currentSmallAllocs, m_usageLimit,
                 m_statsIntervalActive, nativeVars, exitVars, maskVars, scopes>>

getStats ==
  /\ refreshStats
  /\ ret' = NoRet
  /\ UNCHANGED <<m_freelists, mem, m_front, m_blocks, m_bigs,
                 m_bypassSlabAlloc, currentSmallAllocs, m_couldOOM,
                 m_usageLimit, m_statsIntervalActive, nativeVars,
                 exitVars, maskVars, scopes>>

(***************************************************************************)
(* Lifecycle queries.  They are static: they go through tl_heap, which is   *)
(* null when the thread has no active manager.                              *)
(***************************************************************************)
sweeping == tl_heap # nullptr /\ tl_sweeping

\* a plausible slip: the flag of the instance is read without the null test
exiting_deref == m_exiting

exiting == tl_heap # nullptr /\ m_exiting

\* a plausible slip: the flag is flipped instead of set
setExiting_toggle ==
  /\ IF tl_heap # nullptr
     THEN m_exiting' = ~m_exiting
     ELSE UNCHANGED m_exiting
  /\ ret' = NoRet
  /\ UNCHANGED <<mmVars, nativeVars, tl_heap, tl_sweeping, maskVars, scopes>>

setExiting ==
  /\ IF tl_heap # nullptr
     THEN m_exiting' = TRUE
     ELSE UNCHANGED m_exiting
  /\ ret' = NoRet
  /\ UNCHANGED <<mmVars, nativeVars, tl_heap, tl_sweeping, maskVars, scopes>>

(***************************************************************************)
(* SuppressOOM guard objects.  scopes holds the live guards, innermost      *)
(* first; C++ scoping destroys them in the reverse order of construction.   *)
(* Beside the guard's own m_savedCouldOOM each entry notes, for the         *)
(* observer, what m_couldOOM was when the scope was entered.                *)
(***************************************************************************)
\* a plausible slip: the flag is saved but not cleared
SuppressOOM_noclear ==
  /\ scopes' = <<[m_savedCouldOOM |-> m_couldOOM, before |-> m_couldOOM]>>
                 \o scopes
  /\ ret' = NoRet
  /\ UNCHANGED <<m_freelists, mem, m_front, m_blocks, m_bigs, m_stats,
                 m_bypassSlabAlloc, currentSmallAllocs, m_couldOOM,
                 m_usageLimit, m_statsIntervalActive, nativeVars,
                 exitVars, maskVars>>

SuppressOOM ==
  /\ scopes' = <<[m_savedCouldOOM |-> m_couldOOM, before |-> m_couldOOM]>>
                 \o scopes
  /\ m_couldOOM' = FALSE
  /\ ret' = NoRet
  /\ UNCHANGED <<m_freelists, mem, m_front, m_blocks, m_bigs, m_stats,
                 m_bypassSlabAlloc, currentSmallAllocs, m_usageLimit,
                 m_statsIntervalActive, nativeVars, exitVars, maskVars>>

\* a plausible slip: leaving a scope re-enables the checks unconditionally
SuppressOOM_dtor_enable ==
  /\ scopes # <<>>
  /\ m_couldOOM' = TRUE
  /\ scopes' = Tail(scopes)
  /\ ret' = NoRet
  /\ UNCHANGED <<m_freelists, mem, m_front, m_blocks, m_bigs, m_stats,
                 m_bypassSlabAlloc, currentSmallAllocs, m_usageLimit,
                 m_statsIntervalActive, nativeVars, exitVars, maskVars>>

SuppressOOM_dtor ==
  /\ scopes # <<>>
  /\ m_couldOOM' = Head(scopes).m_savedCouldOOM
  /\ scopes' = Tail(scopes)
  /\ ret' = NoRet
  /\ UNCHANGED <<m_freelists, mem, m_front, m_blocks, m_bigs, m_stats,
                 m_bypassSlabAlloc, currentSmallAllocs, m_usageLimit,
                 m_statsIntervalActive, nativeVars, exitVars, maskVars>>

(***************************************************************************)
(* MaskAlloc guard objects.  masks holds the live guards, innermost first.  *)
(* Beside the guard's own startAlloc and startDealloc each entry notes, for *)
(* the observer, what the native counters were when the scope was entered.  *)
(***************************************************************************)
MaskAlloc ==
  /\ masks' = <<[startAlloc |-> IF s_statsEnabled THEN m_allocated ELSE 0,
                 startDealloc |-> IF s_statsEnabled THEN m_deallocated ELSE 0,
                 allocAt |-> m_allocated,
                 deallocAt |-> m_deallocated]>> \o masks
  /\ refreshStats
  /\ ret' = NoRet
  /\ UNCHANGED <<m_freelists, mem, m_front, m_blocks, m_bigs,
                 m_bypassSlabAlloc, currentSmallAllocs, m_couldOOM,
                 m_usageLimit, m_statsIntervalActive, nativeVars, exitVars,
                 m_resetAllocated, m_resetDeallocated, scopes>>

\* a plausible slip: the totals are assigned (=) instead of accumulated (+=)
MaskAlloc_dtor_assign ==
  /\ masks # <<>>
  /\ IF s_statsEnabled
     THEN /\ m_resetAllocated' = m_allocated - Head(masks).startAlloc
          /\ m_resetDeallocated' = m_deallocated - Head(masks).startDealloc
     ELSE UNCHANGED <<m_resetAllocated, m_resetDeallocated>>
  /\ masks' = Tail(masks)
  /\ ret' = NoRet
  /\ UNCHANGED <<mmVars, nativeVars, exitVars, scopes>>

MaskAlloc_dtor ==
  /\ masks # <<>>
  /\ IF s_statsEnabled
     THEN /\ m_resetAllocated' =
               m_resetAllocated + (m_allocated - Head(masks).startAlloc)
          /\ m_resetDeallocated' =
               m_resetDeallocated + (m_deallocated - Head(masks).startDealloc)
     ELSE UNCHANGED <<m_resetAllocated, m_resetDeallocated>>
  /\ masks' = Tail(masks)
  /\ ret' = NoRet
  /\ UNCHANGED <<mmVars, nativeVars, exitVars, scopes>>

(***************************************************************************)
(* Driver of one free list: pushes of pairwise distinct addresses on an     *)
(* initially empty list, then pops with either variant.                     *)
(***************************************************************************)
FreeListPush(a) ==
  /\ popped = <<>>
  /\ Len(pushed) < MaxPush
  /\ a \notin Range(pushed)
  /\ LET r == push(fl, mem, a)
     IN /\ fl' = r.head
        /\ mem' = r.mem
  /\ pushed' = Append(pushed, a)
  /\ UNCHANGED <<popped, m_freelists, m_front, m_blocks, m_bigs, m_stats,
                 m_bypassSlabAlloc, currentSmallAllocs, m_couldOOM,
                 m_usageLimit, m_statsIntervalActive, nativeVars,
                 exitVars, maskVars, callerVars>>

FreeListLikelyPop ==
  /\ Len(popped) <= Len(pushed)
  /\ LET r == likelyPop(fl, mem)
     IN /\ fl' = r.head
        /\ popped' = Append(popped, r.ret)
  /\ UNCHANGED <<pushed, mmVars, nativeVars, exitVars, maskVars, callerVars>>

FreeListUnlikelyPop ==
  /\ Len(popped) <= Len(pushed)
  /\ LET r == unlikelyPop(fl, mem)
     IN /\ fl' = r.head
        /\ popped' = Append(popped, r.ret)
  /\ UNCHANGED <<pushed, mmVars, nativeVars, exitVars, maskVars, callerVars>>

NextFreeList ==
  \/ \E a \in TestAddrs : FreeListPush(a)
  \/ FreeListLikelyPop
  \/ FreeListUnlikelyPop

SpecFreeList == Init /\ [][NextFreeList]_vars

\* C1: the pops that follow a sequence of pushes of distinct addresses on an
\* empty free list return the addresses in the reverse order of the pushes,
\* and the pop after the last one returns null and leaves head null.
C1_LifoOrder ==
  /\ \A k \in 1..Len(popped) :
       popped[k] = IF k <= Len(pushed)
                   THEN pushed[Len(pushed) + 1 - k]
                   ELSE nullptr
  /\ Len(popped) >= Len(pushed) => fl = nullptr

\* two pushes, then the two pops in reverse order, then the pop of the
\* empty list
C1_Witness ==
  /\ Len(pushed) = 2
  /\ Len(popped) = 3
  /\ popped[1] = pushed[2]
  /\ popped[2] = pushed[1]
  /\ popped[3] = nullptr
  /\ fl = nullptr

(***************************************************************************)
(* The callers.  Each Call_ action is one call of an operation with its     *)
(* inputs, under the caller contract (a block is freed only while it is     *)
(* held, with the class it was allocated with), and notes in call what was  *)
(* called and what the state was before.                                    *)
(***************************************************************************)
Idle == scn.phase = "idle"

Observed(op, arg) ==
  [NoCall EXCEPT !.op = op, !.arg = arg,
                 !.couldOOM = m_couldOOM,
                 !.cur = currentUsage,
                 !.snap = usage(getStatsCopy),
                 !.active = m_statsIntervalActive,
                 !.starts = nStarts,
                 !.peakUsage = m_stats.peakIntervalUsage,
                 !.peakCap = m_stats.peakIntervalCap,
                 !.prevSlow = ret.slow]

\* the call frees the block the call before it allocated, with the same key
PairedWith(op, arg, ptr) ==
  /\ call.op = op
  /\ call.arg = arg
  /\ ret.ptr = ptr

Call_mallocSmallIndex(i) ==
  /\ Idle
  /\ mallocSmallIndex(i)
  /\ call' = [Observed("mallocSmallIndex", i) EXCEPT !.index = i]
  /\ held' = held \cup {[ptr |-> ret'.ptr, index |-> i]}
  /\ UNCHANGED <<nStarts, scn, flVars>>

Call_mallocSmallSize(bytes) ==
  /\ Idle
  /\ mallocSmallSize(bytes)
  /\ call' = [Observed("mallocSmallSize", bytes)
                EXCEPT !.index = size2Index(bytes)]
  /\ held' = held \cup {[ptr |-> ret'.ptr, index |-> size2Index(bytes)]}
  /\ UNCHANGED <<nStarts, scn, flVars>>

Call_freeSmallIndex ==
  /\ Idle
  /\ \E b \in held :
       /\ freeSmallIndex(b.ptr, b.index)
       /\ call' = [Observed("freeSmallIndex", b.index) EXCEPT
                     !.index = b.index, !.ptr = b.ptr,
                     !.paired = PairedWith("mallocSmallIndex", b.index, b.ptr),
                     !.before = call.cur]
       /\ held' = held \ {b}
  /\ UNCHANGED <<nStarts, scn, flVars>>

Call_freeSmallSize ==
  /\ Idle
  /\ \E b \in held, bytes \in AllocSizes :
       /\ size2Index(bytes) = b.index
       /\ freeSmallSize(b.ptr, bytes)
       /\ call' = [Observed("freeSmallSize", bytes) EXCEPT
                     !.index = b.index, !.ptr = b.ptr,
                     !.paired = PairedWith("mallocSmallSize", bytes, b.ptr),
                     !.before = call.cur]
       /\ held' = held \ {b}
  /\ UNCHANGED <<nStarts, scn, flVars>>

(***************************************************************************)
(* The reuse scenario: from a state where the free list of the class is     *)
(* empty, n blocks of one size are allocated, all n are freed (in any       *)
(* order), and n more of the same size are allocated.                       *)
(***************************************************************************)
ReuseBegin(bytes, n) ==
  /\ Idle
  /\ m_freelists[size2Index(bytes)] = nullptr
  /\ scn' = [NoScn EXCEPT !.phase = "first", !.bytes = bytes, !.n = n]
  /\ UNCHANGED <<mmVars, nativeVars,
                 exitVars, maskVars, ret, call, held, scopes, nStarts, flVars>>

ReuseFirstBatch ==
  /\ scn.phase = "first"
  /\ mallocSmallSize(scn.bytes)
  /\ call' = [Observed("mallocSmallSize", scn.bytes)
                EXCEPT !.index = size2Index(scn.bytes)]
  /\ held' = held \cup {[ptr |-> ret'.ptr, index |-> size2Index(scn.bytes)]}
  /\ LET full == scn.count + 1 = scn.n
     IN scn' = [scn EXCEPT !.first = @ \cup {ret'.ptr},
                           !.count = IF full THEN 0 ELSE @ + 1,
                           !.usage = IF full THEN m_stats'.mmUsage ELSE 0,
                           !.phase = IF full THEN "free" ELSE "first"]
  /\ UNCHANGED <<nStarts, flVars>>

ReuseFreeAll ==
  /\ scn.phase = "free"
  /\ \E b \in held :
       /\ b.ptr \in scn.first
       /\ freeSmallSize(b.ptr, scn.bytes)
       /\ call' = [Observed("freeSmallSize", scn.bytes) EXCEPT
                     !.index = b.index, !.ptr = b.ptr]
       /\ held' = held \ {b}
  /\ LET full == scn.count + 1 = scn.n
     IN scn' = [scn EXCEPT !.count = IF full THEN 0 ELSE @ + 1,
                           !.phase = IF full THEN "second" ELSE "free"]
  /\ UNCHANGED <<nStarts, flVars>>

ReuseSecondBatch ==
  /\ scn.phase = "second"
  /\ mallocSmallSize(scn.bytes)
  /\ call' = [Observed("mallocSmallSize", scn.bytes)
                EXCEPT !.index = size2Index(scn.bytes)]
  /\ held' = held \cup {[ptr |-> ret'.ptr, index |-> size2Index(scn.bytes)]}
  /\ LET full == scn.count + 1 = scn.n
     IN scn' = [scn EXCEPT !.second = @ \cup {ret'.ptr},
                           !.slow = @ \/ ret'.slow,
                           !.count = IF full THEN 0 ELSE @ + 1,
                           !.phase = IF full THEN "done" ELSE "second"]
  /\ UNCHANGED <<nStarts, flVars>>

NextAlloc ==
  \/ \E i \in AllocIndexes : Call_mallocSmallIndex(i)
  \/ \E bytes \in AllocSizes : Call_mallocSmallSize(bytes)
  \/ Call_freeSmallIndex
  \/ Call_freeSmallSize
  \/ \E bytes \in AllocSizes, n \in 1..MaxBlocks : ReuseBegin(bytes, n)
  \/ ReuseFirstBatch
  \/ ReuseFreeAll
  \/ ReuseSecondBatch

\* the OOM flag and the native counters play no part in these operations
InitAlloc == Init /\ m_couldOOM /\ ~s_statsEnabled

SpecAlloc == InitAlloc /\ [][NextAlloc]_vars

\* C2: a small allocation immediately followed by the free of the block
\* it returned, by index or by size, leaves the usage counter at its value
\* before the allocation, on the free-list path and on the slow path.
C2_AllocFreeSymmetry ==
  (call.op \in {"freeSmallIndex", "freeSmallSize"} /\ call.paired)
    => currentUsage = call.before

\* a size-keyed pair whose allocation was served from the free list
C2_Witness ==
  /\ call.op = "freeSmallSize"
  /\ call.paired
  /\ ~call.prevSlow
  /\ call.before > 0
  /\ currentUsage = call.before

ReuseHolds ==
  /\ scn.second = scn.first
  /\ ~scn.slow
  /\ currentUsage = scn.usage

\* C3 as stated: after n allocations, n frees and n more allocations of one
\* size the second batch is the first batch's set of addresses, the slow
\* path was not called in the second batch and the usage is the usage after
\* the first batch.
C3_ReuseAlways == scn.phase = "done" => ReuseHolds

\* C3: the same, when slab recycling is not bypassed (m_bypassSlabAlloc is
\* false).
C3_ReuseWhenRecycling ==
  (scn.phase = "done" /\ ~m_bypassSlabAlloc) => ReuseHolds

C3_Witness ==
  /\ scn.phase = "done"
  /\ ~m_bypassSlabAlloc
  /\ scn.n = 3
  /\ scn.bytes = 24
  /\ Cardinality(scn.first) = 3
  /\ ReuseHolds

(***************************************************************************)
(* The callers of the budget checks, the suppression scopes and the stats   *)
(* interval, and the native allocator moving its counters.                  *)
(***************************************************************************)
Call_preAllocOOM(size) ==
  /\ preAllocOOM(size)
  /\ call' = Observed("preAllocOOM", size)
  /\ UNCHANGED <<held, nStarts, scn, flVars>>

Call_forceOOM ==
  /\ forceOOM
  /\ call' = Observed("forceOOM", 0)
  /\ UNCHANGED <<held, nStarts, scn, flVars>>

Enter_SuppressOOM ==
  /\ Len(scopes) < MaxScopes
  /\ SuppressOOM
  /\ call' = Observed("SuppressOOM", 0)
  /\ UNCHANGED <<held, nStarts, scn, flVars>>

Exit_SuppressOOM ==
  /\ SuppressOOM_dtor
  /\ call' = [Observed("~SuppressOOM", 0)
                EXCEPT !.entered = Head(scopes).before]
  /\ UNCHANGED <<held, nStarts, scn, flVars>>

Call_startStatsInterval ==
  /\ nStarts < MaxStarts
  /\ startStatsInterval
  /\ call' = Observed("startStatsInterval", 0)
  /\ nStarts' = nStarts + 1
  /\ UNCHANGED <<held, scn, flVars>>

Call_stopStatsInterval ==
  /\ stopStatsInterval
  /\ call' = Observed("stopStatsInterval", 0)
  /\ nStarts' = 0
  /\ UNCHANGED <<held, scn, flVars>>

\* the request mallocs n bytes outside the manager
NativeAlloc(n) ==
  /\ s_statsEnabled
  /\ m_allocated + n <= MaxNative * n
  /\ m_allocated' = m_allocated + n
  /\ ret' = NoRet
  /\ call' = Observed("malloc", n)
  /\ UNCHANGED <<mmVars, s_statsEnabled, m_deallocated, held, scopes,
                 nStarts, scn, flVars, exitVars, maskVars>>

\* the request frees n bytes, possibly allocated by another thread
NativeFree(n) ==
  /\ s_statsEnabled
  /\ m_deallocated + n <= MaxNative * n
  /\ m_deallocated' = m_deallocated + n
  /\ ret' = NoRet
  /\ call' = Observed("free", n)
  /\ UNCHANGED <<mmVars, s_statsEnabled, m_allocated, held, scopes,
                 nStarts, scn, flVars, exitVars, maskVars>>

\* The budget checks read the usage, the native counters, the limit and the
\* OOM flag; allocations move the usage through its values.
Next ==
  \/ \E i \in BudgetIndexes : Call_mallocSmallIndex(i)
  \/ \E size \in OOMSizes : Call_preAllocOOM(size)
  \/ Call_forceOOM
  \/ Enter_SuppressOOM
  \/ Exit_SuppressOOM
  \/ \E n \in NativeBytes : NativeAlloc(n)
  \/ \E n \in NativeBytes : NativeFree(n)

Spec == Init /\ [][Next]_vars

NextInterval ==
  \/ \E i \in BudgetIndexes : Call_mallocSmallIndex(i)
  \/ Call_startStatsInterval
  \/ Call_stopStatsInterval
  \/ \E n \in NativeBytes : NativeAlloc(n)
  \/ \E n \in NativeBytes : NativeFree(n)

\* the OOM flag plays no part in the interval operations
InitInterval == Init /\ m_couldOOM

SpecInterval == InitInterval /\ [][NextInterval]_vars

\* C4 as stated: with the checks enabled preAllocOOM(size) returns true
\* exactly when currentUsage() + size exceeds the limit.
C4_BudgetOnCurrentUsage ==
  (call.op = "preAllocOOM" /\ call.couldOOM)
    => (ret.flag <=> call.cur + call.arg > m_usageLimit)

\* C4: with the checks enabled preAllocOOM(size) returns true exactly when
\* the usage of the reconciled snapshot, getStatsCopy().usage(), plus size
\* exceeds the limit.
C4_BudgetOnSnapshot ==
  (call.op = "preAllocOOM" /\ call.couldOOM)
    => (ret.flag <=> call.snap + call.arg > m_usageLimit)

\* limit 1000, usage 900: preAllocOOM(50) returns false
C4_Witness ==
  /\ call.op = "preAllocOOM"
  /\ call.couldOOM
  /\ m_usageLimit = 1000
  /\ call.snap = 900
  /\ call.cur # call.snap
  /\ call.arg = 50
  /\ ~ret.flag

\* C5: while a SuppressOOM scope is open every preAllocOOM returns false and
\* neither preAllocOOM nor forceOOM invokes the exceeded handler.
C5_SuppressedNoOOM ==
  (call.op \in {"preAllocOOM", "forceOOM"} /\ scopes # <<>>)
    => (~ret.flag /\ ret.exceeded = 0)

\* inside a scope entered with the checks enabled, a request over the limit
C5_Witness ==
  /\ call.op = "preAllocOOM"
  /\ scopes # <<>>
  /\ scopes[Len(scopes)].before
  /\ call.snap + call.arg > m_usageLimit
  /\ ~ret.flag
  /\ ret.exceeded = 0

\* C6: the checks stay suppressed while at least one scope is open, and the
\* exit of a scope leaves m_couldOOM at the value it had just before that
\* scope was entered.
C6_SuppressNesting ==
  /\ scopes # <<>> => ~m_couldOOM
  /\ call.op = "~SuppressOOM" => m_couldOOM = call.entered

\* the inner of two nested scopes has exited; the outer one was entered
\* with the checks enabled
C6_Witness ==
  /\ call.op = "~SuppressOOM"
  /\ Len(scopes) = 1
  /\ scopes[1].before
  /\ ~m_couldOOM

\* C7: a preAllocOOM call invokes the exceeded handler exactly once when it
\* returns true and not at all when it returns false.
C7_SignalOncePerBreach ==
  call.op = "preAllocOOM" => ret.exceeded = (IF ret.flag THEN 1 ELSE 0)

\* limit 1000, usage 900: preAllocOOM(150) returns true, one signal
C7_Witness ==
  /\ call.op = "preAllocOOM"
  /\ m_usageLimit = 1000
  /\ call.snap = 900
  /\ call.arg = 150
  /\ ret.flag
  /\ ret.exceeded = 1

\* C8: forceOOM invokes the exceeded handler exactly once when the checks
\* are enabled, whatever the usage and the limit, and does nothing when they
\* are disabled.
C8_ForceOOM ==
  call.op = "forceOOM"
    => /\ ret.exceeded = (IF call.couldOOM THEN 1 ELSE 0)
       /\ ~call.couldOOM => ~m_couldOOM

\* checks enabled, nothing in use: the handler is invoked once
C8_Witness ==
  /\ call.op = "forceOOM"
  /\ call.couldOOM
  /\ call.snap <= 0
  /\ call.cur = 0
  /\ ret.exceeded = 1

\* C9: startStatsInterval returns true when no interval is active (no start
\* since construction or since the last stop) and false otherwise, the
\* interval is active after any start, and one stop makes it inactive
\* however many starts preceded it.
C9_IntervalStartStop ==
  /\ call.op = "startStatsInterval"
       => /\ ret.flag <=> ~call.active
          /\ ret.flag <=> call.starts = 0
          /\ m_statsIntervalActive
  /\ call.op = "stopStatsInterval" => ~m_statsIntervalActive

\* a start while the interval is already active
C9_Witness ==
  /\ call.op = "startStatsInterval"
  /\ call.starts = 1
  /\ call.active
  /\ ~ret.flag
  /\ m_statsIntervalActive

\* C10: stopStatsInterval leaves the interval inactive and both interval
\* peaks zero, and returns true exactly when an interval was active.
C10_StopResets ==
  call.op = "stopStatsInterval"
    => /\ ~m_statsIntervalActive
       /\ m_stats.peakIntervalUsage = 0
       /\ m_stats.peakIntervalCap = 0
       /\ ret.flag <=> call.active

\* a stop of an active interval whose peaks were not zero
C10_Witness ==
  /\ call.op = "stopStatsInterval"
  /\ call.active
  /\ call.peakUsage > 0
  /\ call.peakCap > 0
  /\ ret.flag
  /\ m_stats.peakIntervalUsage = 0
  /\ m_stats.peakIntervalCap = 0

\* C11 as stated: the result of startStatsInterval is true exactly when
\* m_statsIntervalActive was true at the moment of the call.
C11_ReturnsWasActive ==
  call.op = "startStatsInterval" => (ret.flag <=> call.active)

\* C11: the result of startStatsInterval is true exactly when
\* m_statsIntervalActive was false at the moment of the call (it tells
\* whether this call opened the interval).
C11_ReturnsWasInactive ==
  call.op = "startStatsInterval" => (ret.flag = ~call.active)

\* the start that opens the interval returns true
C11_Witness ==
  /\ call.op = "startStatsInterval"
  /\ ~call.active
  /\ ret.flag
  /\ m_statsIntervalActive

(***************************************************************************)
(* The lifecycle of the thread's manager.  The collector and the thread     *)
(* teardown are outside the sources at hand: the collector alone sets and   *)
(* clears tl_sweeping, and the end of the context clears tl_heap; the       *)
(* memory of the instance is then gone, whatever its fields held.           *)
(***************************************************************************)
Call_sweeping ==
  /\ ret' = [NoRet EXCEPT !.flag = sweeping]
  /\ call' = Observed("sweeping", 0)
  /\ UNCHANGED <<mmVars, nativeVars, exitVars, maskVars, held, scopes,
                 nStarts, scn, flVars>>

Call_exiting ==
  /\ ret' = [NoRet EXCEPT !.flag = exiting]
  /\ call' = Observed("exiting", 0)
  /\ UNCHANGED <<mmVars, nativeVars, exitVars, maskVars, held, scopes,
                 nStarts, scn, flVars>>

Call_setExiting ==
  /\ setExiting
  /\ call' = Observed("setExiting", 0)
  /\ UNCHANGED <<held, nStarts, scn, flVars>>

Call_getStats ==
  /\ getStats
  /\ call' = Observed("getStats", 0)
  /\ UNCHANGED <<held, nStarts, scn, flVars>>

BeginSweep ==
  /\ tl_heap # nullptr
  /\ ~tl_sweeping
  /\ tl_sweeping' = TRUE
  /\ ret' = NoRet
  /\ call' = Observed("beginSweep", 0)
  /\ UNCHANGED <<mmVars, nativeVars, tl_heap, m_exiting, maskVars, held,
                 scopes, nStarts, scn, flVars>>

EndSweep ==
  /\ tl_heap # nullptr
  /\ tl_sweeping
  /\ tl_sweeping' = FALSE
  /\ ret' = NoRet
  /\ call' = Observed("endSweep", 0)
  /\ UNCHANGED <<mmVars, nativeVars, tl_heap, m_exiting, maskVars, held,
                 scopes, nStarts, scn, flVars>>

ContextEnd ==
  /\ tl_heap # nullptr
  /\ tl_heap' = nullptr
  /\ ret' = NoRet
  /\ call' = Observed("contextEnd", 0)
  /\ UNCHANGED <<mmVars, nativeVars, tl_sweeping, m_exiting, maskVars, held,
                 scopes, nStarts, scn, flVars>>

ExitIndexes == {1}
ExitOOMSizes == {150}

\* every operation of the manager, called while it is the thread's active
\* one, and the static lifecycle operations, called at any time; the request
\* has at most MaxLive blocks, open scopes and interval starts at a time
NextExit ==
  \/ /\ tl_heap # nullptr
     /\ Cardinality(m_blocks) < MaxLive
     /\ \E i \in ExitIndexes : Call_mallocSmallIndex(i)
  \/ tl_heap # nullptr /\ Call_freeSmallIndex
  \/ tl_heap # nullptr /\ Call_getStats
  \/ tl_heap # nullptr /\ \E size \in ExitOOMSizes : Call_preAllocOOM(size)
  \/ tl_heap # nullptr /\ Call_forceOOM
  \/ tl_heap # nullptr /\ Len(scopes) < MaxLive /\ Enter_SuppressOOM
  \/ tl_heap # nullptr /\ Exit_SuppressOOM
  \/ tl_heap # nullptr /\ nStarts < MaxLive /\ Call_startStatsInterval
  \/ tl_heap # nullptr /\ Call_stopStatsInterval
  \/ Call_sweeping
  \/ Call_exiting
  \/ Call_setExiting
  \/ BeginSweep
  \/ EndSweep
  \/ ContextEnd

\* the native counters and the bypass mode play no part in the lifecycle;
\* the request starts with the OOM checks enabled
InitExit ==
  /\ Init
  /\ m_couldOOM
  /\ ~s_statsEnabled
  /\ ~m_bypassSlabAlloc
  /\ m_usageLimit = 182

SpecExit == InitExit /\ [][NextExit]_vars

\* C12: m_exiting is false for a fresh instance; a setExiting on the active
\* instance sets it; no step of any operation (allocation, free, stats, OOM
\* check, interval, suppression scope, lifecycle query) resets it, and
\* exiting() stays true for as long as the instance is the active one.
C12_ExitingMonotonic ==
  /\ ~m_exiting
  /\ [][/\ (call'.op = "setExiting" /\ tl_heap # nullptr) => m_exiting'
        /\ m_exiting => m_exiting'
        /\ (exiting /\ tl_heap' # nullptr) => exiting']_vars

\* after setExiting a block was freed and the instance still reports exiting
C12_Witness ==
  /\ call.op = "freeSmallIndex"
  /\ m_exiting
  /\ exiting
  /\ m_statsIntervalActive
  /\ scopes # <<>>

\* C13: with tl_heap null, sweeping() and exiting() return false whatever
\* tl_sweeping and the memory of the former instance hold, and setExiting()
\* changes no state.
C13_NoInstance ==
  [][tl_heap = nullptr =>
       /\ call'.op \in {"sweeping", "exiting"} => ~ret'.flag
       /\ call'.op = "setExiting"
            => UNCHANGED <<mmVars, nativeVars, exitVars, maskVars, held,
                           scopes>>]_vars

\* exiting() called after the context ended while a sweep was flagged and
\* the instance had been set exiting: the result is false
C13_Witness ==
  /\ tl_heap = nullptr
  /\ call.op = "exiting"
  /\ tl_sweeping
  /\ m_exiting
  /\ ~ret.flag

(***************************************************************************)
(* The callers of the dispatchers, at the small/large threshold: the        *)
(* largest small size and index, and the ones just above.  A block is freed *)
(* while it is held, with the size or the index of its class.               *)
(***************************************************************************)
ObjSizes == {kMaxSmallSize, kMaxSmallSize + 1}
ObjIndexes == {kNumSmallSizes - 1, kNumSmallSizes}

\* the request holds at most MaxLive blocks and the backing memory has room
\* for MaxLive large blocks
ObjRoom ==
  /\ Cardinality(held) < MaxLive
  /\ m_front < kHeapBase + MaxLive * sizeIndex2Size(kNumSmallSizes)

Call_objMalloc(size) ==
  /\ ObjRoom
  /\ objMalloc(size)
  /\ call' = [Observed("objMalloc", size) EXCEPT !.index = size2Index(size)]
  /\ held' = held \cup {[ptr |-> ret'.ptr, index |-> size2Index(size)]}
  /\ UNCHANGED <<nStarts, scn, flVars>>

Call_objMallocIndex(i) ==
  /\ ObjRoom
  /\ objMallocIndex(i)
  /\ call' = [Observed("objMallocIndex", i) EXCEPT !.index = i]
  /\ held' = held \cup {[ptr |-> ret'.ptr, index |-> i]}
  /\ UNCHANGED <<nStarts, scn, flVars>>

Call_objFree ==
  /\ \E b \in held, size \in ObjSizes :
       /\ size2Index(size) = b.index
       /\ objFree(b.ptr, size)
       /\ call' = [Observed("objFree", size) EXCEPT
                     !.index = b.index, !.ptr = b.ptr]
       /\ held' = held \ {b}
  /\ UNCHANGED <<nStarts, scn, flVars>>

Call_objFreeIndex ==
  /\ \E b \in held :
       /\ objFreeIndex(b.ptr, b.index)
       /\ call' = [Observed("objFreeIndex", b.index) EXCEPT
                     !.index = b.index, !.ptr = b.ptr]
       /\ held' = held \ {b}
  /\ UNCHANGED <<nStarts, scn, flVars>>

NextObj ==
  \/ \E size \in ObjSizes : Call_objMalloc(size)
  \/ \E i \in ObjIndexes : Call_objMallocIndex(i)
  \/ Call_objFree
  \/ Call_objFreeIndex

SpecObj == InitAlloc /\ [][NextObj]_vars

\* what a step of each path does to the state
TookSmallMalloc(index) ==
  /\ ret'.ptr \in m_blocks'
  /\ ret'.ptr \in m_blocks \/ ret'.slow
  /\ m_stats'.mmUsage = m_stats.mmUsage + sizeIndex2Size(index)
  /\ m_freelists[index] # nullptr
       => /\ ret'.ptr = m_freelists[index]
          /\ m_freelists'[index] = mem[m_freelists[index]]

TookBigMalloc(bytes) ==
  /\ ret'.ptr \notin m_blocks'
  /\ ret'.ptr \in (DOMAIN m_bigs') \ (DOMAIN m_bigs)
  /\ m_bigs'[ret'.ptr] = bytes
  /\ UNCHANGED <<m_freelists, mem, m_blocks, currentSmallAllocs>>

TookSmallFree(ptr, index) ==
  IF m_bypassSlabAlloc
  THEN /\ currentSmallAllocs'[index] = currentSmallAllocs[index] - 1
       /\ ptr \notin DOMAIN m_bigs'
  ELSE /\ m_freelists'[index] = ptr
       /\ mem'[ptr] = m_freelists[index]
       /\ m_stats'.mmUsage = m_stats.mmUsage - sizeIndex2Size(index)

TookBigFree(ptr) ==
  /\ ptr \in (DOMAIN m_bigs) \ (DOMAIN m_bigs')
  /\ UNCHANGED <<m_freelists, mem, m_blocks, currentSmallAllocs>>

\* C14: objMalloc(size) and objFree(p, size) take the small path exactly
\* when size <= kMaxSmallSize, objMallocIndex(i) and objFreeIndex(p, i)
\* exactly when i < kNumSmallSizes; just above the threshold the request
\* goes to mallocBigSize / freeBigSize and no small free list changes.
C14_Dispatch ==
  [][/\ call'.op = "objMalloc"
          => IF call'.arg <= kMaxSmallSize
             THEN TookSmallMalloc(size2Index(call'.arg))
             ELSE TookBigMalloc(call'.arg)
     /\ call'.op = "objMallocIndex"
          => IF call'.arg < kNumSmallSizes
             THEN TookSmallMalloc(call'.arg)
             ELSE TookBigMalloc(sizeIndex2Size(call'.arg))
     /\ call'.op = "objFree"
          => IF call'.arg <= kMaxSmallSize
             THEN TookSmallFree(call'.ptr, size2Index(call'.arg))
             ELSE TookBigFree(call'.ptr)
     /\ call'.op = "objFreeIndex"
          => IF call'.arg < kNumSmallSizes
             THEN TookSmallFree(call'.ptr, call'.arg)
             ELSE TookBigFree(call'.ptr)]_vars

\* objMalloc(kMaxSmallSize + 1) while the free list of the largest small
\* class holds a block: a fresh large block, the free list as it was
C14_Witness ==
  /\ call.op = "objMalloc"
  /\ call.arg = kMaxSmallSize + 1
  /\ ret.ptr \in DOMAIN m_bigs
  /\ ret.ptr \notin m_blocks
  /\ m_freelists[kNumSmallSizes - 1] # nullptr
  /\ m_freelists[kNumSmallSizes - 1] # ret.ptr

\* C15: a budget check works on a copy of the stats: preAllocOOM leaves the
\* stored stats, the interval flag and the limit as they were, and a
\* preAllocOOM that returns false leaves the whole state of the manager
\* unchanged, the OOM flag included.
C15_SnapshotFrame ==
  [][call'.op = "preAllocOOM"
       => /\ UNCHANGED <<m_stats, m_statsIntervalActive, m_usageLimit>>
          /\ ~ret'.flag => UNCHANGED <<mmVars, nativeVars, exitVars,
                                        maskVars, held, scopes>>]_vars

\* a check that returned false while the stored stats were behind the
\* native counters, so that reconciling them would have changed them
C15_Witness ==
  /\ call.op = "preAllocOOM"
  /\ call.couldOOM
  /\ ~ret.flag
  /\ s_statsEnabled
  /\ m_stats.auxUsage # m_allocated - m_deallocated
  /\ call.snap # usage(m_stats)

(***************************************************************************)
(* The size-class engine on its inputs: every size from 2 to MaxDenseSize   *)
(* (across the end of the lookup table at kMaxSmallSizeLookup) and, for     *)
(* every class, its size and the sizes just below and above it.             *)
(***************************************************************************)
TestSizes ==
  {size \in (2..MaxDenseSize)
             \cup {kSizeIndex2Size(i) + d :
                     i \in 0..(kNumSizeClasses - 1), d \in {-1, 0, 1}} :
     1 < size /\ size <= kMaxSizeClass}

Call_sizeClass(size) ==
  /\ size > 1
  /\ size <= kMaxSizeClass
  /\ ret' = [NoRet EXCEPT !.size = sizeClass(size)]
  /\ call' = [Observed("sizeClass", size) EXCEPT !.index = size2Index(size)]
  /\ UNCHANGED <<mmVars, nativeVars, exitVars, maskVars, held, scopes,
                 nStarts, scn, flVars>>

Call_size2Index(size) ==
  /\ size > 0
  /\ size <= kMaxSizeClass
  /\ LET index == size2Index(size)
     IN ret' = [NoRet EXCEPT !.index = index, !.size = sizeIndex2Size(index)]
  /\ call' = Observed("size2Index", size)
  /\ UNCHANGED <<mmVars, nativeVars, exitVars, maskVars, held, scopes,
                 nStarts, scn, flVars>>

Call_computeSize2Index(size) ==
  /\ size > 1
  /\ size <= kMaxSizeClass
  /\ LET index == computeSize2Index(size)
     IN /\ index < kNumSizeClasses
        /\ ret' = [NoRet EXCEPT !.index = index,
                                !.size = sizeIndex2Size(index)]
  /\ call' = Observed("computeSize2Index", size)
  /\ UNCHANGED <<mmVars, nativeVars, exitVars, maskVars, held, scopes,
                 nStarts, scn, flVars>>

\* the engine is a set of pure functions: a run applies one of them once
NextSize ==
  \/ call = NoCall /\ \E size \in TestSizes : Call_sizeClass(size)
  \/ call = NoCall /\ \E size \in TestSizes : Call_size2Index(size)
  \/ call = NoCall /\ \E size \in TestSizes : Call_computeSize2Index(size)

\* the state of the manager plays no part in the engine
InitSize == InitAlloc /\ ~m_bypassSlabAlloc /\ m_usageLimit = 182

SpecSize == InitSize /\ [][NextSize]_vars

\* C16: for 1 < size <= kMaxSizeClass, sizeClass(size) is the size of the
\* class size2Index(size), through the lookup table and through
\* computeSize2Index, for denormal and for normal classes.
C16_SizeClassAgrees ==
  call.op = "sizeClass" => ret.size = sizeIndex2Size(call.index)

\* a size just above the lookup table whose class is a normal one
C16_Witness ==
  /\ call.op = "sizeClass"
  /\ call.arg = kMaxSmallSizeLookup + 1
  /\ call.index = computeSize2Index(call.arg)
  /\ call.index >= Pow2(kLgSizeClassesPerDoubling)
  /\ ret.size = 5120

\* C17: for 1 < size <= kMaxSizeClass the class of size2Index(size), and of
\* computeSize2Index(size), is at least size and no class of a smaller size
\* is at least size: a class size maps to its own class and the size above
\* it to the next class.
C17_Ceiling ==
  call.op \in {"size2Index", "computeSize2Index"} /\ call.arg > 1
    => /\ ret.size >= call.arg
       /\ \A j \in 0..(kNumSizeClasses - 1) :
            sizeIndex2Size(j) >= call.arg => sizeIndex2Size(j) >= ret.size
       /\ \A j \in 0..(kNumSizeClasses - 2) :
            /\ call.arg = sizeIndex2Size(j) => ret.index = j
            /\ call.arg = sizeIndex2Size(j) + 1 => ret.index = j + 1

\* 8192 is a class size beyond the lookup table: it maps to its own class
C17_Witness ==
  /\ call.op = "size2Index"
  /\ call.arg = 8192
  /\ call.arg > kMaxSmallSizeLookup
  /\ ret.size = 8192
  /\ sizeIndex2Size(ret.index - 1) < 8192

\* C18: peakIntervalUsage is never negative; startStatsInterval leaves it at
\* max(0, usage of the snapshot), also when that usage reads negative, and
\* leaves peakIntervalCap at the current capacity.
C18_PeakNonNegative ==
  /\ m_stats.peakIntervalUsage >= 0
  /\ call.op = "startStatsInterval"
       => /\ m_stats.peakIntervalUsage = Max(0, call.snap)
          /\ m_stats.peakIntervalCap = capacity(m_stats)

\* a start while the native counters make the usage read negative and the
\* heap already owns memory
C18_Witness ==
  /\ call.op = "startStatsInterval"
  /\ call.snap < 0
  /\ m_stats.peakIntervalUsage = 0
  /\ m_stats.peakIntervalCap > 0

(***************************************************************************)
(* Masking scopes around native traffic.                                   *)
(***************************************************************************)
Enter_MaskAlloc ==
  /\ Len(masks) < MaxScopes
  /\ MaskAlloc
  /\ call' = Observed("MaskAlloc", 0)
  /\ UNCHANGED <<held, nStarts, scn, flVars>>

Exit_MaskAlloc ==
  /\ MaskAlloc_dtor
  /\ call' = Observed("~MaskAlloc", 0)
  /\ UNCHANGED <<held, nStarts, scn, flVars>>

NextMask ==
  \/ Enter_MaskAlloc
  \/ Exit_MaskAlloc
  \/ \E n \in NativeBytes : NativeAlloc(n)
  \/ \E n \in NativeBytes : NativeFree(n)
  \/ Call_getStats

\* the free lists, the OOM flag and the limit play no part in the masking
InitMask == Init /\ m_couldOOM /\ ~m_bypassSlabAlloc /\ m_usageLimit = 182

SpecMask == InitMask /\ [][NextMask]_vars

\* C19: with the native counters available, the exit of a MaskAlloc scope
\* adds to m_resetAllocated exactly the bytes the native allocator handed
\* out since the scope was entered and to m_resetDeallocated exactly the
\* bytes it took back; without the counters the exit changes neither, and
\* the entry never changes them.
C19_MaskedTraffic ==
  [][/\ call'.op = "MaskAlloc"
          => UNCHANGED <<m_resetAllocated, m_resetDeallocated>>
     /\ call'.op = "~MaskAlloc"
          => IF s_statsEnabled
             THEN /\ m_resetAllocated' =
                       m_resetAllocated + (m_allocated - Head(masks).allocAt)
                  /\ m_resetDeallocated' =
                       m_resetDeallocated
                         + (m_deallocated - Head(masks).deallocAt)
             ELSE UNCHANGED <<m_resetAllocated, m_resetDeallocated>>]_vars

\* 100 bytes were allocated before the scope and 100 inside it, nothing
\* was freed: the scope has ended and only its 100 bytes are masked
C19_Witness ==
  /\ call.op = "~MaskAlloc"
  /\ s_statsEnabled
  /\ masks = <<>>
  /\ m_allocated = 200
  /\ m_deallocated = 0
  /\ m_resetAllocated = 100
  /\ m_resetDeallocated = 0

(***************************************************************************)
(* Ownership of the blocks.                                                *)
(***************************************************************************)
\* the addresses on the list that starts at head, in list order, followed
\* for at most n links
RECURSIVE Chain(_, _, _)
Chain(head, m, n) ==
  IF head = nullptr \/ n = 0
  THEN <<>>
  ELSE <<head>> \o Chain(m[head], m, n - 1)

OnFreeList(index) == Chain(m_freelists[index], mem, MaxBlocks + 1)

HeldPtrs == {b.ptr : b \in held}

Owned ==
  \* no held block is on a free list
  /\ \A i \in AllocIndexes : HeldPtrs \cap Range(OnFreeList(i)) = {}
  \* no address is twice on a free list
  /\ \A i \in AllocIndexes :
       /\ Len(OnFreeList(i)) <= MaxBlocks
       /\ Cardinality(Range(OnFreeList(i))) = Len(OnFreeList(i))
  \* no address is on the free lists of two classes
  /\ \A i, j \in AllocIndexes :
       i # j => Range(OnFreeList(i)) \cap Range(OnFreeList(j)) = {}
  \* a held address is held once, with one class
  /\ Cardinality(HeldPtrs) = Cardinality(held)
  \* the classes beside the allocated ones have empty lists
  /\ \A i \in SmallClasses \ AllocIndexes : m_freelists[i] = nullptr

\* C20: under the caller contract, after any sequence of small allocations
\* and frees no address is both held and on a free list, no address is
\* twice on a free list or on the lists of two classes, and no allocation
\* returns an address that is held at the time of the call (an allocation
\* is a step that raises the usage).
C20_ExclusiveOwnership ==
  /\ Owned
  /\ [][/\ Owned'
        /\ (/\ call'.op \in {"mallocSmallIndex", "mallocSmallSize"}
            /\ m_stats'.mmUsage > m_stats.mmUsage)
             => (ret'.ptr \notin HeldPtrs /\ ret'.ptr \in HeldPtrs')]_vars

\* two blocks of a class are on its free list, a third one is held, and the
\* allocation just served took a block off the list
C20_Witness ==
  /\ call.op = "mallocSmallIndex"
  /\ ~ret.slow
  /\ ret.ptr \in HeldPtrs
  /\ Len(OnFreeList(call.index)) = 2
  /\ Cardinality(held) = 1

====
